---- MODULE Spec2Model ----
(***************************************************************************)
(* Real-time messaging subsystem of fithub-backend: the connection         *)
(* registry (app/core/websocket_manager.py), the WebSocket protocol        *)
(* handler (app/api/ws.py) and the client/coach REST facades               *)
(* (app/api/client/conversations.py, app/api/coach/conversations.py).      *)
(*                                                                         *)
(* Conventions.  A nullable timestamp or id is a natural number with 0     *)
(* for NULL/None/missing (the clock and the serials start at 1).  A        *)
(* nullable string is None or Some(s) with s a sequence of characters.     *)
(* A REST handler is one database transaction and is one action.  A        *)
(* WebSocket handler is a coroutine: it runs without interruption up to    *)
(* its next `await ws.send_json(...)`, so every push is a separate step    *)
(* and other coroutines and REST requests interleave between pushes.       *)
(* media_metadata is stored and echoed unchanged and is left out.          *)
(***************************************************************************)
EXTENDS Integers, Sequences, FiniteSets, TLC

\* ---------------------------------------------------------------- bounds
MaxMessages == 2        \* rows inserted into table messages in a run
MaxConvSeq == 2         \* values the conversations serial hands out
MaxTransient == 1       \* typing and ping events accepted in a run
NumHandles == 3         \* WebSocket objects that ever connect

\* ---------------------------------------------------------------- users
Clients == {1, 3}
Coaches == {2}
Users == Clients \cup Coaches
RoleOf(u) == IF u \in Coaches THEN "coach" ELSE "client"

\* the (client, coach) pairs for which a coach package can be bought
Purchasable == {<<1, 2>>}

Handles == 1..NumHandles
MsgIds == 1..MaxMessages
ConvIds == 1..MaxConvSeq

\* ------------------------------------------------------- nullable strings
None == <<"None">>
Some(s) == <<"Some", s>>
\* Python truthiness of an Optional[str]: None and "" are falsy
Truthy(o) == o # None /\ o[2] # <<>>

RECURSIVE LStrip(_)
LStrip(s) == IF s # <<>> /\ Head(s) = " " THEN LStrip(Tail(s)) ELSE s
RECURSIVE RStrip(_)
RStrip(s) == IF s # <<>> /\ s[Len(s)] = " " THEN RStrip(SubSeq(s, 1, Len(s) - 1)) ELSE s
\* str.strip()
Strip(s) == RStrip(LStrip(s))

BodyInputs == {None, Some(<<" ">>), Some(<<" ", "h">>)}
UrlInputs == {None, Some(<<"u">>)}
TypeInputs == {"text", "image", "video"}

VARIABLES
    subscriptions,       \* active, unexpired (client, coach) pairs of the ledger
    conversations,       \* rows of table conversations, in insertion order
    conv_seq,            \* last value of the conversations id serial
    messages,            \* rows of table messages, in insertion order
    msg_seq,             \* last value of the messages id serial
    read_by,             \* history: <<message id, user>> for every mark-read that took effect
    now,                 \* NOW() of the next transaction
    active_connections,  \* ConnectionManager.active_connections: user -> set
    pc,                  \* per WebSocket: "new", "idle", "fan", "closed", "closed 4001"
    owner,               \* per WebSocket: authenticated user id (0 before)
    alive,               \* per WebSocket: the transport still accepts frames
    received,            \* per WebSocket: frames written to it, in order
    task,                \* per WebSocket: the suspended handler's locals
    budget,              \* what the run may still do: rows to insert, typing/ping events to accept
    http_status,         \* status code of the last REST response (0: none yet)
    pager,               \* a REST consumer paging through a conversation: what it was handed so far
    calls                \* find-or-create requests in flight: what each read, and the id it was answered

dbvars == <<subscriptions, conversations, conv_seq, messages, msg_seq, read_by, now>>
wsvars == <<active_connections, pc, owner, alive, received, task>>
vars == <<subscriptions, conversations, conv_seq, messages, msg_seq, read_by, now,
          active_connections, pc, owner, alive, received, task, budget, http_status,
          pager, calls>>

\* ------------------------------------------------------------ store reads
Range(s) == {s[i] : i \in 1..Len(s)}

\* SELECT ... FROM conversations WHERE id = %s ; fetchone()
ConvRows(c) == {r \in Range(conversations) : r.id = c}
HasConv(c) == ConvRows(c) # {}
Conv(c) == CHOOSE r \in ConvRows(c) : TRUE

Msg(m) == CHOOSE r \in Range(messages) : r.id = m
HasMsg(m) == \E r \in Range(messages) : r.id = m

OtherType(t) == IF t = "coach" THEN "client" ELSE "coach"

\* ----------------------------------------------------------- the ledger
\* External collaborator: a subscription becomes active / expires.
Subscribe(cl, co) ==
    /\ <<cl, co>> \notin subscriptions
    /\ subscriptions' = subscriptions \cup {<<cl, co>>}
    /\ UNCHANGED <<conversations, conv_seq, messages, msg_seq, read_by, now, wsvars, budget, http_status, pager, calls>>

Expire(cl, co) ==
    /\ <<cl, co>> \in subscriptions
    /\ subscriptions' = subscriptions \ {<<cl, co>>}
    /\ UNCHANGED <<conversations, conv_seq, messages, msg_seq, read_by, now, wsvars, budget, http_status, pager, calls>>

\* ------------------------------------------------ conversation directory
\* _get_client_active_coach: the coaches of the client's active subscriptions
\* (the query returns the most recently purchased one; the ledger holds at
\* most one pair per coach and its purchase order is not modelled, so any
\* active one may be the answer).
ActiveCoaches(cl) == {co \in Users : <<cl, co>> \in subscriptions}

PairRows(cl, co) ==
    {r \in Range(conversations) : r.client_user_id = cl /\ r.coach_user_id = co}

\* the statement below without its ON CONFLICT clause
InsertRows(cl, co) ==
    Append(conversations,
           [id |-> conv_seq + 1, client_user_id |-> cl,
            coach_user_id |-> co, updated_at |-> now])

\* INSERT INTO conversations ... ON CONFLICT (client_user_id, coach_user_id)
\* DO UPDATE SET updated_at = NOW() RETURNING id.  The serial is advanced
\* before the conflict is detected.
UpsertRows(cl, co) ==
    IF PairRows(cl, co) # {}
    THEN [i \in 1..Len(conversations) |->
            IF conversations[i] \in PairRows(cl, co)
            THEN [conversations[i] EXCEPT !.updated_at = now]
            ELSE conversations[i]]
    ELSE Append(conversations,
                [id |-> conv_seq + 1, client_user_id |-> cl,
                 coach_user_id |-> co, updated_at |-> now])

UpsertId(cl, co) ==
    IF PairRows(cl, co) # {}
    THEN (CHOOSE r \in PairRows(cl, co) : TRUE).id
    ELSE conv_seq + 1

Upsert(cl, co) ==
    /\ conv_seq < MaxConvSeq
    /\ conversations' = UpsertRows(cl, co)
    /\ conv_seq' = conv_seq + 1
    /\ now' = now + 1

\* The find-or-create handlers run in the thread pool, one transaction each:
\* a request is between its reads and its INSERT ... ON CONFLICT, or answered.
CallSlots == {1, 2}
NoCall == [stage |-> "none", op |-> "none", client |-> 0, coach |-> 0, id |-> 0]

\* a REST request that changes nothing but the response
Respond(status) ==
    /\ http_status' = status
    /\ UNCHANGED <<dbvars, wsvars, budget, pager, calls>>

\* POST /client/conversations
create_client_conversation(u, coach_in) ==
    IF RoleOf(u) # "client"
    THEN Respond(403)
    ELSE IF coach_in = 0
    THEN IF ActiveCoaches(u) = {}
         THEN Respond(400)
         ELSE \E co \in ActiveCoaches(u) :
                /\ Upsert(u, co)
                /\ http_status' = 200
                /\ UNCHANGED <<subscriptions, messages, msg_seq, read_by, wsvars, budget, pager, calls>>
    ELSE IF <<u, coach_in>> \notin subscriptions
         THEN Respond(403)
         ELSE /\ Upsert(u, coach_in)
              /\ http_status' = 200
              /\ UNCHANGED <<subscriptions, messages, msg_seq, read_by, wsvars, budget, pager, calls>>

\* POST /coach/conversations without the subscription lookup
create_coach_conversation_unchecked(u, client_in) ==
    IF RoleOf(u) # "coach"
    THEN Respond(403)
    ELSE /\ Upsert(client_in, u)
         /\ http_status' = 201
         /\ UNCHANGED <<subscriptions, messages, msg_seq, read_by, wsvars, budget, pager, calls>>

\* POST /coach/conversations
create_coach_conversation(u, client_in) ==
    IF RoleOf(u) # "coach"
    THEN Respond(403)
    ELSE IF <<client_in, u>> \notin subscriptions
    THEN Respond(403)
    ELSE /\ Upsert(client_in, u)
         /\ http_status' = 201
         /\ UNCHANGED <<subscriptions, messages, msg_seq, read_by, wsvars, budget, pager, calls>>

\* (SELECT COUNT(*) FROM messages m WHERE m.conversation_id = c.id
\*    AND m.sender_type = <other> AND m.read_at IS NULL) AS unread_count
unread_count(c, other) ==
    Cardinality({r \in Range(messages) :
                    r.conversation_id = c /\ r.sender_type = other /\ r.read_at = 0})

\* GET /coach/conversations: the rows returned (id and unread_count)
list_coach_conversations_rows(u) ==
    {[id |-> r.id, unread_count |-> unread_count(r.id, "client")] :
        r \in {x \in Range(conversations) : x.coach_user_id = u}}

\* GET /client/conversations: the rows of the first query
list_client_conversations_rows(u) ==
    {[id |-> r.id, unread_count |-> unread_count(r.id, "coach")] :
        r \in {x \in Range(conversations) : x.client_user_id = u}}

list_coach_conversations(u) ==
    IF RoleOf(u) # "coach"
    THEN Respond(403)
    ELSE Respond(200)

\* GET /client/conversations, with the auto-create of the first listing
list_client_conversations(u) ==
    IF RoleOf(u) # "client"
    THEN Respond(403)
    ELSE IF list_client_conversations_rows(u) # {} \/ ActiveCoaches(u) = {}
    THEN Respond(200)
    ELSE \E co \in ActiveCoaches(u) :
            /\ Upsert(u, co)
            /\ http_status' = 200
            /\ UNCHANGED <<subscriptions, messages, msg_seq, read_by, wsvars, budget, pager, calls>>

\* The find-or-create handlers step by step, for requests that run at the
\* same time.  A request that passes its reads is in flight in slot k:
\* POST /client/conversations up to its INSERT
create_client_conversation_reads(k, u, coach_in) ==
    /\ calls[k].stage = "none"
    /\ RoleOf(u) = "client"
    /\ \E co \in Users :
          /\ IF coach_in = 0 THEN co \in ActiveCoaches(u)
             ELSE co = coach_in /\ <<u, coach_in>> \in subscriptions
          /\ calls' = [calls EXCEPT ![k] =
                [stage |-> "insert", op |-> "create_client", client |-> u,
                 coach |-> co, id |-> 0]]
    /\ UNCHANGED <<dbvars, wsvars, budget, http_status, pager>>

\* POST /coach/conversations up to its INSERT
create_coach_conversation_reads(k, u, client_in) ==
    /\ calls[k].stage = "none"
    /\ RoleOf(u) = "coach"
    /\ <<client_in, u>> \in subscriptions
    /\ calls' = [calls EXCEPT ![k] =
          [stage |-> "insert", op |-> "create_coach", client |-> client_in,
           coach |-> u, id |-> 0]]
    /\ UNCHANGED <<dbvars, wsvars, budget, http_status, pager>>

\* GET /client/conversations up to the INSERT of its auto-create: the first
\* query returned no row and the client has an active coach
list_client_conversations_reads(k, u) ==
    /\ calls[k].stage = "none"
    /\ RoleOf(u) = "client"
    /\ list_client_conversations_rows(u) = {}
    /\ \E co \in ActiveCoaches(u) :
          calls' = [calls EXCEPT ![k] =
             [stage |-> "insert", op |-> "list_client", client |-> u,
              coach |-> co, id |-> 0]]
    /\ UNCHANGED <<dbvars, wsvars, budget, http_status, pager>>

\* the INSERT ... ON CONFLICT ... RETURNING id of the request in slot k and
\* its commit: one atomic statement of the store, answered with the id
upsert_commit(k) ==
    /\ calls[k].stage = "insert"
    /\ Upsert(calls[k].client, calls[k].coach)
    /\ calls' = [calls EXCEPT ![k].stage = "done",
                              ![k].id = UpsertId(calls[k].client, calls[k].coach)]
    /\ http_status' = IF calls[k].op = "create_coach" THEN 201 ELSE 200
    /\ UNCHANGED <<subscriptions, messages, msg_seq, read_by, wsvars, budget, pager>>

\* _ensure_client_conversation / _ensure_coach_conversation: TRUE when the
\* handler goes on, FALSE when it raises HTTPException(404)
_ensure_client_conversation(c, u) == HasConv(c) /\ Conv(c).client_user_id = u
_ensure_coach_conversation(c, u) == HasConv(c) /\ Conv(c).coach_user_id = u

\* ---------------------------------------------------------- message store
\* SendMessageBody with its two field validators: the parsed body, or
\* ok = FALSE when pydantic rejects the request (422)
SendMessageBody(raw) ==
    [ok |-> raw.message_type \in {"text", "image"},
     body |-> IF raw.body = None THEN None
              ELSE IF Strip(raw.body[2]) = <<>> THEN None
              ELSE Some(Strip(raw.body[2])),
     message_type |-> raw.message_type,
     media_url |-> raw.media_url]

RestInputs ==
    [body : BodyInputs, message_type : TypeInputs, media_url : UrlInputs]

\* the row an INSERT INTO messages ... RETURNING produces
NewRow(c, sender_type, sender_user_id, body, message_type, media_url, read_at) ==
    [id |-> msg_seq + 1, conversation_id |-> c, sender_type |-> sender_type,
     sender_user_id |-> sender_user_id, body |-> body,
     message_type |-> message_type, media_url |-> media_url,
     created_at |-> now, read_at |-> read_at]

Insert(row) ==
    /\ budget.messages > 0
    /\ messages' = Append(messages, row)
    /\ msg_seq' = msg_seq + 1
    /\ now' = now + 1
    /\ budget' = [budget EXCEPT !.messages = @ - 1]

\* read_at of the row send_client_message inserts: VALUES (..., NOW(), NOW())
client_read_at == now
\* read_at of the row send_coach_message inserts: column default
coach_read_at == 0
\* read_at of the row _handle_send_message inserts: column default
ws_read_at == 0

\* POST /client/conversations/{conversation_id}/messages
send_client_message(u, c, raw) ==
    LET b == SendMessageBody(raw) IN
    IF RoleOf(u) # "client"
    THEN Respond(403)
    ELSE IF ~b.ok
    THEN Respond(422)
    ELSE IF ~_ensure_client_conversation(c, u)
    THEN Respond(404)
    ELSE IF b.message_type = "text" /\ ~Truthy(b.body)
    THEN Respond(400)
    ELSE IF b.message_type = "image" /\ ~Truthy(b.media_url)
    THEN Respond(400)
    ELSE /\ Insert(NewRow(c, "client", u, b.body, b.message_type, b.media_url,
                          client_read_at))
         /\ http_status' = 200
         /\ UNCHANGED <<subscriptions, conversations, conv_seq, read_by, wsvars, pager, calls>>

\* POST /coach/conversations/{conversation_id}/messages
send_coach_message(u, c, raw) ==
    LET b == SendMessageBody(raw) IN
    IF RoleOf(u) # "coach"
    THEN Respond(403)
    ELSE IF ~b.ok
    THEN Respond(422)
    ELSE IF ~_ensure_coach_conversation(c, u)
    THEN Respond(404)
    ELSE IF b.message_type = "text" /\ ~Truthy(b.body)
    THEN Respond(400)
    ELSE IF b.message_type = "image" /\ ~Truthy(b.media_url)
    THEN Respond(400)
    ELSE /\ Insert(NewRow(c, "coach", u, b.body, b.message_type, b.media_url,
                          coach_read_at))
         /\ http_status' = 200
         /\ UNCHANGED <<subscriptions, conversations, conv_seq, read_by, wsvars, pager, calls>>

\* the WHERE clause below without `AND read_at IS NULL`
ReadMatchAgain(r, m, c, sender_type) ==
    /\ r.id = m
    /\ r.conversation_id = c
    /\ r.sender_type = sender_type

\* WHERE id = %s AND conversation_id = %s AND sender_type = %s AND read_at IS NULL
ReadMatch(r, m, c, sender_type) ==
    /\ r.id = m
    /\ r.conversation_id = c
    /\ r.sender_type = sender_type
    /\ r.read_at = 0

\* the rows UPDATE messages SET read_at = NOW() WHERE ... RETURNING yields
ReadRows(m, c, sender_type) ==
    {r \in Range(messages) : ReadMatch(r, m, c, sender_type)}

\* table messages after the UPDATE
MarkedRows(m, c, sender_type) ==
    [i \in 1..Len(messages) |->
        IF ReadMatch(messages[i], m, c, sender_type)
        THEN [messages[i] EXCEPT !.read_at = now]
        ELSE messages[i]]

\* PATCH /client/conversations/{conversation_id}/messages/{message_id}/read
mark_client_message_read(u, c, m) ==
    IF RoleOf(u) # "client"
    THEN Respond(403)
    ELSE IF ~_ensure_client_conversation(c, u)
    THEN Respond(404)
    ELSE IF ReadRows(m, c, "coach") = {}
    THEN Respond(404)
    ELSE /\ messages' = MarkedRows(m, c, "coach")
         /\ read_by' = read_by \cup {<<m, u>>}
         /\ now' = now + 1
         /\ http_status' = 200
         /\ UNCHANGED <<subscriptions, conversations, conv_seq, msg_seq, wsvars, budget, pager, calls>>

\* PATCH /coach/conversations/{conversation_id}/messages/{message_id}/read
mark_coach_message_read(u, c, m) ==
    IF RoleOf(u) # "coach"
    THEN Respond(403)
    ELSE IF ~_ensure_coach_conversation(c, u)
    THEN Respond(404)
    ELSE IF ReadRows(m, c, "client") = {}
    THEN Respond(404)
    ELSE /\ messages' = MarkedRows(m, c, "client")
         /\ read_by' = read_by \cup {<<m, u>>}
         /\ now' = now + 1
         /\ http_status' = 200
         /\ UNCHANGED <<subscriptions, conversations, conv_seq, msg_seq, wsvars, budget, pager, calls>>

\* ------------------------------------------------------------ list messages
\* the filter below with `id <= %s` for `id < %s`
MessagesUpTo(c, before) ==
    {r.id : r \in {x \in Range(messages) :
                      x.conversation_id = c /\ (before = 0 \/ x.id <= before)}}

\* WHERE conversation_id = %s [AND id < %s]; `if before:` takes 0 and a
\* missing cursor alike
MessagesBefore(c, before) ==
    {r.id : r \in {x \in Range(messages) :
                      x.conversation_id = c /\ (before = 0 \/ x.id < before)}}

\* ORDER BY id DESC
RECURSIVE Descending(_)
Descending(S) ==
    IF S = {} THEN <<>>
    ELSE LET top == CHOOSE x \in S : \A y \in S : y <= x
         IN <<top>> \o Descending(S \ {top})

\* LIMIT limit + 1, then rows[:limit]: the ids of the page
list_messages_rows(c, before, limit) ==
    LET rows == Descending(MessagesBefore(c, before))
    IN IF Len(rows) > limit THEN SubSeq(rows, 1, limit) ELSE rows

\* has_more = len(rows) > limit
has_more(c, before, limit) == Cardinality(MessagesBefore(c, before)) > limit

\* a consumer that has not asked for a page
NoPager ==
    [user |-> 0, conv |-> 0, limit |-> 0, got |-> <<>>, base |-> {}, more |-> FALSE]

\* The consumer's side of a page: a call without cursor starts over (base
\* is history: the messages the conversation held at that moment); a call
\* whose cursor is the oldest id received so far adds the page; any other
\* call is somebody else's.
Paged(u, c, before, limit) ==
    IF before = 0
    THEN [user |-> u, conv |-> c, limit |-> limit,
          got |-> list_messages_rows(c, before, limit),
          base |-> MessagesBefore(c, 0),
          more |-> has_more(c, before, limit)]
    ELSE IF /\ pager.user = u /\ pager.conv = c /\ pager.limit = limit
            /\ pager.got # <<>>
            /\ before = pager.got[Len(pager.got)]
    THEN [pager EXCEPT !.got = @ \o list_messages_rows(c, before, limit),
                       !.more = has_more(c, before, limit)]
    ELSE pager

\* limit: int = Query(50, ge=1, le=100)
limit_valid(limit) == limit >= 1 /\ limit <= 100

\* GET /client/conversations/{conversation_id}/messages
list_client_messages(u, c, before, limit) ==
    IF RoleOf(u) # "client"
    THEN Respond(403)
    ELSE IF ~limit_valid(limit)
    THEN Respond(422)
    ELSE IF ~_ensure_client_conversation(c, u)
    THEN Respond(404)
    ELSE /\ http_status' = 200
         /\ pager' = Paged(u, c, before, limit)
         /\ UNCHANGED <<dbvars, wsvars, budget, calls>>

\* GET /coach/conversations/{conversation_id}/messages
list_coach_messages(u, c, before, limit) ==
    IF RoleOf(u) # "coach"
    THEN Respond(403)
    ELSE IF ~limit_valid(limit)
    THEN Respond(422)
    ELSE IF ~_ensure_coach_conversation(c, u)
    THEN Respond(404)
    ELSE /\ http_status' = 200
         /\ pager' = Paged(u, c, before, limit)
         /\ UNCHANGED <<dbvars, wsvars, budget, calls>>

\* ------------------------------------------------------ connection registry
\* self.active_connections.get(user_id, set())
Conns(acs, u) == IF u \in DOMAIN acs THEN acs[u] ELSE {}

\* is_online
is_online(u) == u \in DOMAIN active_connections /\ Cardinality(active_connections[u]) > 0

\* ConnectionManager.connect, after websocket.accept()
connect(acs, h, u) ==
    [x \in DOMAIN acs \cup {u} |-> IF x = u THEN Conns(acs, u) \cup {h} ELSE acs[x]]

\* disconnect without `del self.active_connections[user_id]`
disconnect_keeps_entry(acs, h, u) ==
    IF u \notin DOMAIN acs THEN acs
    ELSE [acs EXCEPT ![u] = @ \ {h}]

\* ConnectionManager.disconnect
disconnect(acs, h, u) ==
    IF u \notin DOMAIN acs THEN acs
    ELSE IF acs[u] \ {h} = {}
    THEN [x \in DOMAIN acs \ {u} |-> acs[x]]
    ELSE [acs EXCEPT ![u] = @ \ {h}]

NoTask ==
    [kind |-> "none", frame |-> <<>>, targets |-> <<>>, user |-> 0,
     snap |-> {}, visited |-> {}, dead |-> {}, stale |-> FALSE, audience |-> {}]

\* A `del self.active_connections[u]` detaches the set object that a
\* suspended send_to_user(u, ...) iterates: the loop keeps the old, now
\* empty, object whatever is registered under u afterwards.
Detach(tsk, acs0, acs1) ==
    [x \in Handles |->
        IF pc[x] = "fan" /\ tsk[x].user \in DOMAIN acs0 /\ tsk[x].user \notin DOMAIN acs1
        THEN [tsk[x] EXCEPT !.stale = TRUE]
        ELSE tsk[x]]

\* leaving the receive loop: manager.disconnect(websocket, user_id); the
\* endpoint returns and the socket object, with its history, is dropped
Leave(h) ==
    /\ active_connections' = disconnect(active_connections, h, owner[h])
    /\ task' = [Detach(task, active_connections,
                       disconnect(active_connections, h, owner[h]))
                EXCEPT ![h] = NoTask]
    /\ pc' = [pc EXCEPT ![h] = "closed"]
    /\ owner' = [owner EXCEPT ![h] = 0]
    /\ alive' = [alive EXCEPT ![h] = FALSE]
    /\ received' = [received EXCEPT ![h] = <<>>]

\* the push below retried once after it succeeded
WrittenTwice(rcv, e, frame) ==
    IF alive[e] THEN [rcv EXCEPT ![e] = Append(Append(@, frame), frame)] ELSE rcv

\* await ws.send_json(message): the frame reaches a live transport, a dead
\* one raises
Written(rcv, e, frame) ==
    IF alive[e] THEN [rcv EXCEPT ![e] = Append(@, frame)] ELSE rcv

\* send_to_user calls left to make, without the users whose set is empty
\* (their loop body never runs and `dead` stays empty)
RECURSIVE SkipEmpty(_, _)
SkipEmpty(acs, targets) ==
    IF targets = <<>> THEN <<>>
    ELSE IF Conns(acs, Head(targets)) = {} THEN SkipEmpty(acs, Tail(targets))
    ELSE targets

\* The handler of socket h calls send_to_user for each user of `targets` in
\* turn and runs up to the first push, where it is suspended; with nothing
\* to push it returns to the receive loop.  `audience` is history: the
\* sockets that were registered for the users of the event when the handler
\* took it up.
StartFan(acs, h, kind, targets, frame, audience) ==
    LET ts == SkipEmpty(acs, targets) IN
    IF ts = <<>>
    THEN /\ pc' = [pc EXCEPT ![h] = "idle"]
         /\ task' = [task EXCEPT ![h] = NoTask]
         /\ received' = received
    ELSE \E e \in acs[Head(ts)] :
            /\ pc' = [pc EXCEPT ![h] = "fan"]
            /\ received' = Written(received, e, frame)
            /\ task' = [task EXCEPT ![h] =
                          [kind |-> kind, frame |-> frame, targets |-> Tail(ts),
                           user |-> Head(ts), snap |-> acs[Head(ts)],
                           visited |-> {e},
                           dead |-> IF alive[e] THEN {} ELSE {e},
                           stale |-> FALSE, audience |-> audience]]

\* the set object the suspended loop of h iterates
IterObject(h) ==
    IF task[h].stale THEN {} ELSE Conns(active_connections, task[h].user)

\* `for ws in connections` asks for the next element after the set changed
\* size: RuntimeError, outside the loop's try/except, leaves send_to_user
send_to_user_raises(h) ==
    Cardinality(IterObject(h)) # Cardinality(task[h].snap)

\* The loop of send_to_user pushes to one more element.
FanPush(h) ==
    /\ pc[h] = "fan"
    /\ ~send_to_user_raises(h)
    /\ \E e \in IterObject(h) \ task[h].visited :
          /\ received' = Written(received, e, task[h].frame)
          /\ task' = [task EXCEPT ![h].visited = @ \cup {e},
                                  ![h].dead = IF alive[e] THEN @ ELSE @ \cup {e}]
    /\ UNCHANGED <<dbvars, active_connections, pc, owner, alive, budget, http_status, pager, calls>>

\* The loop of send_to_user ends: every element was visited, or the set was
\* changed and changed back to its size and the iterator runs off its end.
\* The dead handles are discarded and the handler goes on to its next
\* send_to_user, or returns.
FanDone(h) ==
    /\ pc[h] = "fan"
    /\ ~send_to_user_raises(h)
    /\ \/ IterObject(h) \ task[h].visited = {}
       \/ IterObject(h) # task[h].snap
    /\ LET acs1 == IF task[h].stale THEN active_connections
                   ELSE [active_connections EXCEPT ![task[h].user] = @ \ task[h].dead]
       IN /\ active_connections' = acs1
          /\ StartFan(acs1, h, task[h].kind, task[h].targets, task[h].frame,
                      task[h].audience)
    /\ UNCHANGED <<dbvars, owner, alive, budget, http_status, pager, calls>>

\* the step below with conn.commit() placed after the pushes: the rollback
\* of the except clause removes the row of the message being pushed
FanRaiseRollsBack(h) ==
    /\ pc[h] = "fan"
    /\ send_to_user_raises(h)
    /\ IF task[h].kind = "typing"
       THEN Leave(h) /\ messages' = messages
       ELSE /\ pc' = [pc EXCEPT ![h] = "idle"]
            /\ task' = [task EXCEPT ![h] = NoTask]
            /\ messages' = SelectSeq(messages,
                                LAMBDA r : ~(task[h].kind = "message"
                                             /\ r.id = task[h].frame.message_id))
            /\ UNCHANGED <<active_connections, owner, alive, received>>
    /\ UNCHANGED <<subscriptions, conversations, conv_seq, msg_seq, read_by, now,
                   budget, http_status, pager, calls>>

\* send_to_user raises into the handler.  _handle_send_message and
\* _handle_read catch it (log, rollback of the committed transaction) and
\* return; _handle_typing has no except clause, so the receive loop's
\* `except Exception` unregisters the socket and the endpoint returns.
FanRaise(h) ==
    /\ pc[h] = "fan"
    /\ send_to_user_raises(h)
    /\ IF task[h].kind = "typing"
       THEN Leave(h)
       ELSE /\ pc' = [pc EXCEPT ![h] = "idle"]
            /\ task' = [task EXCEPT ![h] = NoTask]
            /\ UNCHANGED <<active_connections, owner, alive, received, pager, calls>>
    /\ UNCHANGED <<dbvars, budget, http_status, pager, calls>>

\* ------------------------------------------------------ WebSocket endpoint
Frame(type, c, m, u, cs) ==
    [type |-> type, conversation_id |-> c, message_id |-> m, user_id |-> u,
     conversation_ids |-> cs]

\* the query below without `OR coach_user_id = %s`
ClientConversationIdsOf(u) ==
    {r.id : r \in {x \in Range(conversations) : x.client_user_id = u}}

\* SELECT id FROM conversations WHERE client_user_id = %s OR coach_user_id = %s
ConversationIdsOf(u) ==
    {r.id : r \in {x \in Range(conversations) :
                      x.client_user_id = u \/ x.coach_user_id = u}}

\* websocket_endpoint with manager.connect moved above the credential check
ConnectBeforeAuthenticate(h, token) ==
    /\ pc[h] = "new"
    /\ \A x \in Handles : x < h => pc[x] # "new"
    /\ active_connections' = connect(active_connections, h, token)
    /\ IF token = 0
       THEN /\ pc' = [pc EXCEPT ![h] = "closed 4001"]
            /\ UNCHANGED <<owner, alive, received, task, pager, calls>>
       ELSE /\ owner' = [owner EXCEPT ![h] = token]
            /\ alive' = [alive EXCEPT ![h] = TRUE]
            /\ received' = [received EXCEPT ![h] =
                  <<Frame("connected", 0, 0, token, ConversationIdsOf(token))>>]
            /\ pc' = [pc EXCEPT ![h] = "idle"]
            /\ UNCHANGED task
    /\ UNCHANGED <<dbvars, budget, http_status, pager, calls>>

\* websocket_endpoint up to the receive loop.  token is the user id the
\* credential decodes to, 0 for a credential that fails validation
\* (_authenticate_token returns None): websocket.close(code=4001) and return,
\* position "closed 4001".
Connect(h, token) ==
    /\ pc[h] = "new"
    /\ \A x \in Handles : x < h => pc[x] # "new"
    /\ IF token = 0
       THEN /\ pc' = [pc EXCEPT ![h] = "closed 4001"]
            /\ UNCHANGED <<active_connections, owner, alive, received, task, pager, calls>>
       ELSE /\ active_connections' = connect(active_connections, h, token)
            /\ owner' = [owner EXCEPT ![h] = token]
            /\ alive' = [alive EXCEPT ![h] = TRUE]
            /\ received' = [received EXCEPT ![h] =
                  <<Frame("connected", 0, 0, token, ConversationIdsOf(token))>>]
            /\ pc' = [pc EXCEPT ![h] = "idle"]
            /\ UNCHANGED task
    /\ UNCHANGED <<dbvars, budget, http_status, pager, calls>>

\* the peer goes away or the network drops: the transport of h is dead
ClientClose(h) ==
    /\ pc[h] \in {"idle", "fan"}
    /\ alive[h]
    /\ alive' = [alive EXCEPT ![h] = FALSE]
    /\ UNCHANGED <<dbvars, active_connections, pc, owner, received, task, budget, http_status, pager, calls>>

\* receive_json() raises WebSocketDisconnect
Disconnect(h) ==
    /\ pc[h] = "idle"
    /\ ~alive[h]
    /\ Leave(h)
    /\ UNCHANGED <<dbvars, budget, http_status, pager, calls>>

\* an event that the handler drops: nothing but the log changes
Drop == UNCHANGED vars

WsMessageInputs ==
    [conversation_id : {0} \cup ConvIds, body : BodyInputs,
     message_type : TypeInputs, media_url : UrlInputs]

\* body = str(body).strip() if body else None
ws_body(body) == IF Truthy(body) THEN Some(Strip(body[2])) ELSE None

\* the checks of _handle_send_message before it opens the store
ws_message_valid(data) ==
    /\ data.conversation_id # 0
    /\ ~(data.message_type = "text"
         /\ (~Truthy(data.body) \/ Strip(data.body[2]) = <<>>))
    /\ ~(data.message_type = "image" /\ ~Truthy(data.media_url))

\* conv and sender_id in (conv["client_user_id"], conv["coach_user_id"])
ws_member(c, u) ==
    HasConv(c) /\ u \in {Conv(c).client_user_id, Conv(c).coach_user_id}

\* the sender_type below without the look at the coach seat
ws_sender_type_fixed(c, u) == "client"

\* sender_type = "coach" if sender_id == conv["coach_user_id"] else "client"
ws_sender_type(c, u) == IF u = Conv(c).coach_user_id THEN "coach" ELSE "client"

\* the recipient looked up by role instead of in the conversation row: the
\* last user of the other role
ws_recipient_by_role(c, u) ==
    CHOOSE x \in Users :
       /\ RoleOf(x) # RoleOf(u)
       /\ \A y \in Users : RoleOf(y) # RoleOf(u) => y <= x

\* recipient_id = conv["client_user_id"] if sender_type == "coach" else conv["coach_user_id"]
ws_recipient(c, u) ==
    IF ws_sender_type(c, u) = "coach" THEN Conv(c).client_user_id
    ELSE Conv(c).coach_user_id

\* {"type": "message", ...}
_handle_send_message(h, data) ==
    LET u == owner[h]
        c == data.conversation_id
    IN
    IF ~ws_message_valid(data) \/ ~ws_member(c, u)
    THEN Drop
    ELSE /\ Insert(NewRow(c, ws_sender_type(c, u), u, ws_body(data.body),
                          data.message_type, data.media_url, ws_read_at))
         /\ StartFan(active_connections, h, "message",
                     <<u, ws_recipient(c, u)>>,
                     Frame("new_message", c, msg_seq + 1, u, {}),
                     Conns(active_connections, u)
                        \cup Conns(active_connections, ws_recipient(c, u)))
         /\ UNCHANGED <<subscriptions, conversations, conv_seq, read_by,
                        active_connections, owner, alive, http_status, pager, calls>>

\* the handler below with the sender for recipient_id
_handle_typing_echo(h, c) ==
    LET u == owner[h] IN
    IF c = 0 \/ ~ws_member(c, u)
    THEN Drop
    ELSE /\ budget.transient > 0
         /\ budget' = [budget EXCEPT !.transient = @ - 1]
         /\ StartFan(active_connections, h, "typing", <<u>>,
                     Frame("typing", c, 0, u, {}),
                     Conns(active_connections, u))
         /\ UNCHANGED <<dbvars, active_connections, owner, alive, http_status, pager, calls>>

\* {"type": "typing", ...}
_handle_typing(h, c) ==
    LET u == owner[h] IN
    IF c = 0 \/ ~ws_member(c, u)
    THEN Drop
    ELSE /\ budget.transient > 0
         /\ budget' = [budget EXCEPT !.transient = @ - 1]
         /\ StartFan(active_connections, h, "typing",
                     <<IF u = Conv(c).coach_user_id THEN Conv(c).client_user_id
                       ELSE Conv(c).coach_user_id>>,
                     Frame("typing", c, 0, u, {}),
                     Conns(active_connections,
                           IF u = Conv(c).coach_user_id THEN Conv(c).client_user_id
                           ELSE Conv(c).coach_user_id))
         /\ UNCHANGED <<dbvars, active_connections, owner, alive, http_status, pager, calls>>

\* other_type = "client" if user_role == "coach" else "coach"
ws_other_type(u) == IF RoleOf(u) = "coach" THEN "client" ELSE "coach"

\* the handler below with the reader for row["sender_user_id"]
_handle_read_to_reader(h, c, m) ==
    LET u == owner[h] IN
    IF c = 0 \/ m = 0
    THEN Drop
    ELSE IF ReadRows(m, c, ws_other_type(u)) = {}
    THEN Drop
    ELSE /\ messages' = MarkedRows(m, c, ws_other_type(u))
         /\ read_by' = read_by \cup {<<m, u>>}
         /\ now' = now + 1
         /\ StartFan(active_connections, h, "read", <<u>>,
                     Frame("message_read", c, m, 0, {}),
                     Conns(active_connections, u))
         /\ UNCHANGED <<subscriptions, conversations, conv_seq, msg_seq,
                        active_connections, owner, alive, budget, http_status, pager, calls>>

\* {"type": "read", ...}
_handle_read(h, c, m) ==
    LET u == owner[h] IN
    IF c = 0 \/ m = 0
    THEN Drop
    ELSE IF ReadRows(m, c, ws_other_type(u)) = {}
    THEN Drop
    ELSE /\ messages' = MarkedRows(m, c, ws_other_type(u))
         /\ read_by' = read_by \cup {<<m, u>>}
         /\ now' = now + 1
         /\ StartFan(active_connections, h, "read",
                     <<(CHOOSE r \in ReadRows(m, c, ws_other_type(u)) : TRUE).sender_user_id>>,
                     Frame("message_read", c, m, 0, {}),
                     Conns(active_connections,
                           (CHOOSE r \in ReadRows(m, c, ws_other_type(u)) : TRUE).sender_user_id))
         /\ UNCHANGED <<subscriptions, conversations, conv_seq, msg_seq,
                        active_connections, owner, alive, budget, http_status, pager, calls>>

\* {"type": "ping"}: the pong goes to the socket itself
Ping(h) ==
    /\ budget.transient > 0
    /\ budget' = [budget EXCEPT !.transient = @ - 1]
    /\ received' = [received EXCEPT ![h] = Append(@, Frame("pong", 0, 0, 0, {}))]
    /\ UNCHANGED <<dbvars, active_connections, pc, owner, alive, task, http_status, pager, calls>>

\* an object with a `type` no branch of the loop handles
UnknownType(h) == Drop

\* a JSON value that is not an object: data.get raises AttributeError, the
\* receive loop's `except Exception` unregisters the socket
NotAnObject(h) ==
    /\ Leave(h)
    /\ UNCHANGED <<dbvars, budget, http_status, pager, calls>>

\* one turn of the receive loop: receive_json() returns an event
Receive(h, Data) ==
    /\ pc[h] = "idle"
    /\ alive[h]
    /\ \/ \E data \in Data : _handle_send_message(h, data)
       \/ \E c \in {0} \cup ConvIds : _handle_typing(h, c)
       \/ \E c \in {0} \cup ConvIds, m \in {0} \cup MsgIds : _handle_read(h, c, m)
       \/ Ping(h)
       \/ UnknownType(h)
       \/ NotAnObject(h)

\* ------------------------------------------------------------------ faults
\* _get_db() raises inside a handler (it is called outside the handler's
\* try), or the SELECT of _handle_typing raises (try/finally, no except):
\* the exception reaches the receive loop, whose `except Exception`
\* unregisters the socket and ends the endpoint
StoreDown(h) ==
    /\ pc[h] = "idle"
    /\ alive[h]
    /\ Leave(h)
    /\ UNCHANGED <<dbvars, budget, http_status, pager, calls>>

\* The INSERT of _handle_send_message raises: `except Exception` logs and
\* rolls back, send_to_user is never called and the handler returns.  The
\* id serial may or may not have been advanced by the failed statement.
InsertFails(h, data) ==
    /\ pc[h] = "idle"
    /\ alive[h]
    /\ ws_message_valid(data)
    /\ ws_member(data.conversation_id, owner[h])
    /\ budget.messages > 0
    /\ budget' = [budget EXCEPT !.messages = @ - 1]
    /\ msg_seq' \in {msg_seq, msg_seq + 1}
    /\ UNCHANGED <<subscriptions, conversations, conv_seq, messages, read_by, now,
                   wsvars, http_status, pager, calls>>

\* The server process stops: every coroutine, socket and the registry are
\* gone, at whatever point the handlers were; the store keeps what was
\* committed.
ProcessStops ==
    /\ \E h \in Handles : pc[h] \in {"idle", "fan"}
    /\ active_connections' = <<>>
    /\ pc' = [h \in Handles |-> IF pc[h] \in {"idle", "fan"} THEN "closed" ELSE pc[h]]
    /\ owner' = [h \in Handles |-> 0]
    /\ alive' = [h \in Handles |-> FALSE]
    /\ received' = [h \in Handles |-> <<>>]
    /\ task' = [h \in Handles |-> NoTask]
    /\ UNCHANGED <<dbvars, budget, http_status, pager, calls>>

\* the faults of the WebSocket channel with the sockets H
Faults(H, Data) ==
    \/ \E h \in H : StoreDown(h)
    \/ \E h \in H, data \in Data : InsertFails(h, data)
    \/ ProcessStops

\* ------------------------------------------------------------ specification
\* no socket has connected, no REST request was answered
NoSockets ==
    /\ active_connections = <<>>
    /\ pc = [h \in Handles |-> "new"]
    /\ owner = [h \in Handles |-> 0]
    /\ alive = [h \in Handles |-> FALSE]
    /\ received = [h \in Handles |-> <<>>]
    /\ task = [h \in Handles |-> NoTask]
    /\ http_status = 0
    /\ pager = NoPager
    /\ calls = [k \in CallSlots |-> NoCall]

\* empty tables
EmptyStore ==
    /\ subscriptions = {}
    /\ conversations = <<>>
    /\ conv_seq = 0
    /\ messages = <<>>
    /\ msg_seq = 0
    /\ read_by = {}
    /\ now = 1

\* A conversation between client 1 and coach 2 exists and is empty (the
\* store after Subscribe(1, 2) and create_client_conversation(1, 2)).
ChatStore ==
    /\ subscriptions = {<<1, 2>>}
    /\ conversations = <<[id |-> 1, client_user_id |-> 1, coach_user_id |-> 2,
                          updated_at |-> 1]>>
    /\ conv_seq = 1
    /\ messages = <<>>
    /\ msg_seq = 0
    /\ read_by = {}
    /\ now = 2

Init ==
    /\ EmptyStore
    /\ NoSockets
    /\ budget = [messages |-> MaxMessages, transient |-> MaxTransient]

\* the requests of the conversation directory
Directory ==
    \/ \E u \in Users, co \in {0} \cup Users : create_client_conversation(u, co)
    \/ \E u \in Users, cl \in Users : create_coach_conversation(u, cl)
    \/ \E u \in Users : list_client_conversations(u)
    \/ \E u \in Users : list_coach_conversations(u)

\* the REST sends, with request bodies drawn from Raw
RestSend(Raw) ==
    \/ \E u \in Users, c \in ConvIds, raw \in Raw : send_client_message(u, c, raw)
    \/ \E u \in Users, c \in ConvIds, raw \in Raw : send_coach_message(u, c, raw)

RestRead ==
    \/ \E u \in Users, c \in ConvIds, m \in MsgIds : mark_client_message_read(u, c, m)
    \/ \E u \in Users, c \in ConvIds, m \in MsgIds : mark_coach_message_read(u, c, m)

\* the WebSocket channel with the sockets H, credentials drawn from Tokens
\* and `message` events drawn from Data
Channel(H, Tokens, Data) ==
    \/ \E h \in H, token \in Tokens : Connect(h, token)
    \/ \E h \in H : Receive(h, Data)
    \/ \E h \in H : FanDone(h)
    \/ \E h \in H : ClientClose(h)
    \/ \E h \in H : Disconnect(h)

\* the steps of send_to_user that need a user with several sockets
Iterate(H) ==
    \/ \E h \in H : FanPush(h)
    \/ \E h \in H : FanRaise(h)

\* subscriptions of the pairs P become active and expire
LedgerOf(P) ==
    \/ \E p \in P : Subscribe(p[1], p[2])
    \/ \E p \in P : Expire(p[1], p[2])

Ledger == LedgerOf(Purchasable)

\* every user's credential and an invalid one
AllTokens == {0} \cup Users

\* request bodies and `message` events of a plain text message, with and
\* without something to say
TextRaw == {raw \in RestInputs : raw.message_type = "text" /\ raw.media_url = None}
TextData == {d \in WsMessageInputs : d.message_type = "text" /\ d.media_url = None}

\* Both channels over the whole life of a conversation, one socket open at
\* a time.
Next ==
    \/ Ledger
    \/ Directory
    \/ RestSend(TextRaw)
    \/ RestRead
    \/ Channel({1}, AllTokens, TextData)

Spec == Init /\ [][Next]_vars

InitChat ==
    /\ ChatStore
    /\ NoSockets
    /\ budget = [messages |-> MaxMessages, transient |-> MaxTransient]

\* The WebSocket channel alone, two sockets in play: the coroutines of the
\* sockets interleave at their pushes.
NextFan ==
    \/ Channel({1, 2}, AllTokens, TextData)
    \/ Iterate({1, 2})

SpecFan == InitChat /\ [][NextFan]_vars

\* One message sent over the WebSocket channel while the two participants
\* hold up to NumHandles sockets between them.
InitTabs ==
    /\ ChatStore
    /\ NoSockets
    /\ budget = [messages |-> 1, transient |-> 0]

NextTabs ==
    \/ Channel(Handles, {1, 2}, TextData)
    \/ Iterate(Handles)

SpecTabs == InitTabs /\ [][NextTabs]_vars

\* Every kind of message payload on both channels, one socket, in the
\* conversation of ChatStore: which row one send stores.
InitPayload ==
    /\ ChatStore
    /\ NoSockets
    /\ budget = [messages |-> 1, transient |-> MaxTransient]

NextPayload ==
    \/ RestSend(RestInputs)
    \/ Channel({1}, {1, 2}, WsMessageInputs)

SpecPayload == InitPayload /\ [][NextPayload]_vars

\* Sends and mark-reads on both channels in the conversation of ChatStore,
\* by its two participants and by an outsider, every send one that has
\* something to say.
SaidRaw == {raw \in TextRaw : Truthy(raw.body) /\ Strip(raw.body[2]) # <<>>}
SaidData ==
    {d \in TextData : d.conversation_id = 1 /\ Truthy(d.body) /\ Strip(d.body[2]) # <<>>}

NextRead ==
    \/ RestSend(SaidRaw)
    \/ RestRead
    \/ Channel({1}, Users, SaidData)

SpecRead == InitChat /\ [][NextRead]_vars

\* The conversation directory alone, with both clients able to subscribe
\* to the coach.
NextDirectory ==
    \/ LedgerOf({<<1, 2>>, <<3, 2>>})
    \/ Directory

SpecDirectory == Init /\ [][NextDirectory]_vars

\* page sizes asked for: two that page through a short conversation and the
\* two just outside the accepted range
LimitInputs == {0, 1, 2, 101}

\* the REST listings of messages
RestList ==
    \/ \E u \in Users, c \in ConvIds, b \in {0} \cup MsgIds, l \in LimitInputs :
          list_client_messages(u, c, b, l)
    \/ \E u \in Users, c \in ConvIds, b \in {0} \cup MsgIds, l \in LimitInputs :
          list_coach_messages(u, c, b, l)

\* The REST message operations in the conversation of ChatStore: sends,
\* mark-reads and paged listings by its participants and by an outsider.
NextRest ==
    \/ RestSend(SaidRaw)
    \/ RestRead
    \/ RestList

\* one message more than MaxMessages, so that a page of two can be followed
\* by an append and by another page
InitRest ==
    /\ ChatStore
    /\ NoSockets
    /\ budget = [messages |-> MaxMessages + 1, transient |-> 0]

SpecRest == InitRest /\ [][NextRest]_vars

\* Paged listings of the conversation of ChatStore while both participants
\* append to it.
NextPages ==
    \/ RestSend(SaidRaw)
    \/ RestList

SpecPages == InitRest /\ [][NextPages]_vars

\* Typing indicators and pings alone, among three sockets of the two
\* participants and an outsider; no message is sent.
InitTyping ==
    /\ ChatStore
    /\ NoSockets
    /\ budget = [messages |-> 0, transient |-> MaxTransient]

NextTyping ==
    \/ Channel({1, 2, 3}, Users, SaidData)
    \/ Iterate({1, 2, 3})

SpecTyping == InitTyping /\ [][NextTyping]_vars

\* Connections with valid and invalid credentials among three sockets, one
\* message in play.
NextAuth ==
    \/ Channel({1, 2, 3}, AllTokens, TextData)
    \/ Iterate({1, 2, 3})

SpecAuth == InitTabs /\ [][NextAuth]_vars

\* Two WebSocket sends of the two participants, two sockets, with store
\* faults and process stops.
NextDurable ==
    \/ Channel({1, 2}, {1, 2}, SaidData)
    \/ Iterate({1, 2})
    \/ Faults({1, 2}, SaidData)

InitDurable ==
    /\ ChatStore
    /\ NoSockets
    /\ budget = [messages |-> 2, transient |-> 0]

SpecDurable == InitDurable /\ [][NextDurable]_vars

\* One message and its read receipts: three sockets of the two
\* participants, WebSocket `read` events and REST mark-reads interleaved.
NextReceipts ==
    \/ Channel({1, 2, 3}, {1, 2}, SaidData)
    \/ Iterate({1, 2, 3})
    \/ \E u \in {1, 2}, m \in MsgIds : mark_client_message_read(u, 1, m)
    \/ \E u \in {1, 2}, m \in MsgIds : mark_coach_message_read(u, 1, m)

SpecReceipts == InitTabs /\ [][NextReceipts]_vars

\* Find-or-create requests of two clients and their coach running at the
\* same time, while subscriptions come and go.
NextCreate ==
    \/ LedgerOf({<<1, 2>>, <<3, 2>>})
    \/ \E k \in CallSlots, u \in Users, co \in {0} \cup Users :
          create_client_conversation_reads(k, u, co)
    \/ \E k \in CallSlots, u \in Users, cl \in Users :
          create_coach_conversation_reads(k, u, cl)
    \/ \E k \in CallSlots, u \in Users : list_client_conversations_reads(k, u)
    \/ \E k \in CallSlots : upsert_commit(k)

SpecCreate == Init /\ [][NextCreate]_vars

\* Two conversations of coach 2, with client 1 and with client 3, both
\* empty (the store after both subscriptions and both find-or-creates).
TwoChats ==
    /\ subscriptions = {<<1, 2>>, <<3, 2>>}
    /\ conversations = <<[id |-> 1, client_user_id |-> 1, coach_user_id |-> 2,
                          updated_at |-> 1],
                         [id |-> 2, client_user_id |-> 3, coach_user_id |-> 2,
                          updated_at |-> 2]>>
    /\ conv_seq = 2
    /\ messages = <<>>
    /\ msg_seq = 0
    /\ read_by = {}
    /\ now = 3

InitShared ==
    /\ TwoChats
    /\ NoSockets
    /\ budget = [messages |-> MaxMessages + 1, transient |-> 0]

\* `message` events with a body that is stored, into either conversation
SaidAnywhere ==
    {d \in TextData : Truthy(d.body) /\ Strip(d.body[2]) # <<>>}

\* Sends on both channels into the two conversations, which share the one
\* table messages.
NextShared ==
    \/ RestSend(SaidRaw)
    \/ Channel({1}, Users, SaidAnywhere)

SpecShared == InitShared /\ [][NextShared]_vars

\* The two participants and a third user, one socket each (socket h is
\* user h's): one message, one transient event, and `read` events from
\* anybody.
InitThird ==
    /\ ChatStore
    /\ NoSockets
    /\ budget = [messages |-> 1, transient |-> 1]

NextThird ==
    \/ \E h \in {1, 2, 3} : Connect(h, h)
    \/ \E h \in {1, 2, 3} : Receive(h, SaidData)
    \/ \E h \in {1, 2, 3} : FanDone(h)
    \/ \E h \in {1, 2, 3} : ClientClose(h)
    \/ \E h \in {1, 2, 3} : Disconnect(h)
    \/ \E h \in {1, 2, 3} : FanRaise(h)

SpecThird == InitThird /\ [][NextThird]_vars

\* ------------------------------------------------------------------ claims
\* the participant of the conversation of row r who did not send it
Receiver(r) ==
    IF r.sender_user_id = Conv(r.conversation_id).client_user_id
    THEN Conv(r.conversation_id).coach_user_id
    ELSE Conv(r.conversation_id).client_user_id

\* every socket registered under some user
Registered(acs) == UNION {acs[u] : u \in DOMAIN acs}

\* C1 - every send (WebSocket `message` event, REST send_client_message,
\* REST send_coach_message) creates its row with a null read_at, and a null
\* read_at becomes non-null only in a mark-read by the receiving participant,
\* never by the send itself.
C1_SendsCreateUnread ==
    [][/\ \A i \in 1..Len(messages') :
             i > Len(messages) => messages'[i].read_at = 0
       /\ \A i \in 1..Len(messages) :
             (messages[i].read_at = 0 /\ messages'[i].read_at # 0)
             => <<messages[i].id, Receiver(messages[i])>> \in read_by' \ read_by]_vars

\* C2 - over any interleaving of mark-reads on both channels the read_at of
\* a message changes at most once, from null to the time of the marking
\* transaction, and only by an actor whose role is opposite to the message's
\* sender role and who is not its sender; a message that is already read is
\* left as it is by every later step.
C2_ReadAtMostOnce ==
    [][\A i \in 1..Len(messages) :
          /\ messages[i].read_at # 0 => messages'[i] = messages[i]
          /\ messages'[i].read_at # messages[i].read_at
             => /\ messages[i].read_at = 0
                /\ messages'[i].read_at = now
                /\ \E u \in Users :
                      /\ <<messages[i].id, u>> \in read_by' \ read_by
                      /\ RoleOf(u) # messages[i].sender_type
                      /\ u # messages[i].sender_user_id]_vars

\* C2 - a message was marked read on each channel and a mark of an
\* already-read message was then answered
C2_Witness ==
    /\ \E x \in read_by, y \in read_by :
          /\ RoleOf(x[2]) = "client" /\ RoleOf(y[2]) = "coach"
          /\ Msg(x[1]).read_at # 0 /\ Msg(y[1]).read_at # 0
    /\ http_status = 404

\* C3 - a WebSocket event (`message`, `typing`, `read`) from a user who holds
\* no seat in the conversation it names has no side effect: no row is
\* written, no read_at is set and no frame is pushed to any socket.
C3_NonMemberEventsInert ==
    [][\A h \in Handles :
          (pc[h] = "idle" /\ alive[h])
          => /\ \A data \in WsMessageInputs :
                   (~ws_member(data.conversation_id, owner[h])
                      /\ _handle_send_message(h, data))
                   => UNCHANGED <<dbvars, received>>
             /\ \A c \in ConvIds :
                   (~ws_member(c, owner[h]) /\ _handle_typing(h, c))
                   => UNCHANGED <<dbvars, received>>
             /\ \A c \in ConvIds, m \in MsgIds :
                   (~ws_member(c, owner[h]) /\ _handle_read(h, c, m))
                   => UNCHANGED <<dbvars, received>>]_vars

\* C4 - a message accepted by send_client_message or send_coach_message is
\* pushed, as the send persists it, to every live socket registered for the
\* sender and for the recipient, as a WebSocket send does.
C4_RestSendsPush ==
    [][\A u \in Users, c \in ConvIds, raw \in RestInputs :
          (/\ send_client_message(u, c, raw) \/ send_coach_message(u, c, raw)
           /\ http_status' = 200
           /\ Len(messages') = Len(messages) + 1)
          => \A h \in Conns(active_connections, u)
                        \cup Conns(active_connections, ws_recipient(c, u)) :
                alive[h]
                => Frame("new_message", c, msg_seq + 1, u, {}) \in Range(received'[h])]_vars

\* C5 - when _handle_send_message has accepted a `message` event and
\* returns, every socket that was registered for the sender or for the other
\* participant when the event was accepted, and is still registered and
\* open, has been sent the new_message frame of the stored row.
C5_AcceptedMessagePushed ==
    [][\A h \in Handles :
          (pc[h] = "fan" /\ task[h].kind = "message" /\ pc'[h] # "fan")
          => \A x \in task[h].audience :
                (x \in Registered(active_connections') /\ alive'[x])
                => task[h].frame \in Range(received'[x])]_vars

\* C6 - a malformed WebSocket event (no conversation id, empty or blank text
\* body, image without media URL, `read` without message id, unknown type,
\* JSON that is not an object) or an event from a non-member is dropped
\* silently: the store is unchanged, no frame is written to any socket, and
\* the socket it came on stays registered and goes on receiving.
C6_MalformedDropped ==
    [][\A h \in Handles :
          (/\ pc[h] = "idle"
           /\ alive[h]
           /\ \/ NotAnObject(h)
              \/ UnknownType(h)
              \/ \E data \in WsMessageInputs :
                    /\ ~ws_message_valid(data) \/ ~ws_member(data.conversation_id, owner[h])
                    /\ _handle_send_message(h, data)
              \/ \E c \in {0} \cup ConvIds :
                    /\ c = 0 \/ ~ws_member(c, owner[h])
                    /\ _handle_typing(h, c)
              \/ \E c \in {0} \cup ConvIds, m \in {0} \cup MsgIds :
                    /\ c = 0 \/ m = 0 \/ ~ws_member(c, owner[h])
                    /\ _handle_read(h, c, m))
          => /\ UNCHANGED <<dbvars, received>>
             /\ pc'[h] = "idle"
             /\ h \in Conns(active_connections', owner[h])]_vars

\* C7 - send_to_user never raises to its caller: a call that leaves its loop
\* returns normally, having attempted the push on every socket of the user's
\* set and removed from the set exactly the sockets whose push failed.
C7_SendToUserReturns ==
    [][\A h \in Handles :
          pc[h] = "fan"
          => /\ ~FanRaise(h)
             /\ FanDone(h)
                => /\ task[h].snap \subseteq task[h].visited
                   /\ Conns(active_connections', task[h].user)
                         = Conns(active_connections, task[h].user) \ task[h].dead]_vars

\* C8 - marking a message that is already read, or was sent by the marker's
\* own role, or is not in the named conversation, is not an error on either
\* channel: the REST mark-read answers with a success status and the
\* WebSocket `read` closes nothing, and the store is left unchanged.
C8_NothingToMarkIsNoError ==
    [][/\ \A u \in Users, c \in ConvIds, m \in MsgIds :
             /\ (/\ HasMsg(m)
                 /\ RoleOf(u) = "client"
                 /\ _ensure_client_conversation(c, u)
                 /\ ReadRows(m, c, "coach") = {}
                 /\ mark_client_message_read(u, c, m))
                => (http_status' < 400 /\ UNCHANGED dbvars)
             /\ (/\ HasMsg(m)
                 /\ RoleOf(u) = "coach"
                 /\ _ensure_coach_conversation(c, u)
                 /\ ReadRows(m, c, "client") = {}
                 /\ mark_coach_message_read(u, c, m))
                => (http_status' < 400 /\ UNCHANGED dbvars)
       /\ \A h \in Handles, c \in ConvIds, m \in MsgIds :
             (/\ pc[h] = "idle"
              /\ alive[h]
              /\ HasMsg(m)
              /\ ReadRows(m, c, ws_other_type(owner[h])) = {}
              /\ _handle_read(h, c, m))
             => (pc'[h] = "idle" /\ UNCHANGED dbvars)]_vars

\* C9 - for every conversation and each of its participants, the
\* unread_count of the participant's conversation listing is the number of
\* messages of the conversation that the other party sent and that the
\* participant has not marked read.
C9_UnreadCountIsOutstanding ==
    \A r \in Range(conversations) :
       /\ \A row \in list_coach_conversations_rows(r.coach_user_id) :
             row.id = r.id
             => row.unread_count
                  = Cardinality({x \in Range(messages) :
                       /\ x.conversation_id = r.id
                       /\ x.sender_user_id = r.client_user_id
                       /\ <<x.id, r.coach_user_id>> \notin read_by})
       /\ \A row \in list_client_conversations_rows(r.client_user_id) :
             row.id = r.id
             => row.unread_count
                  = Cardinality({x \in Range(messages) :
                       /\ x.conversation_id = r.id
                       /\ x.sender_user_id = r.coach_user_id
                       /\ <<x.id, r.client_user_id>> \notin read_by})

\* C10 - every stored message, whichever channel created it, has kind text
\* or image; a text message has a non-empty trimmed body and no media URL;
\* an image message has a media URL.
C10_StoredPayloadWellFormed ==
    \A r \in Range(messages) :
       /\ r.message_type \in {"text", "image"}
       /\ r.message_type = "text"
          => /\ Truthy(r.body)
             /\ Strip(r.body[2]) = r.body[2]
             /\ r.media_url = None
       /\ r.message_type = "image" => Truthy(r.media_url)

\* C11 - every successful append bumps the conversation's updated_at in the
\* step of the insert, so a conversation's updated_at is never older than
\* the created_at of any of its messages.
C11_LastActivityCoversNewest ==
    \A r \in Range(conversations), x \in Range(messages) :
       x.conversation_id = r.id => r.updated_at >= x.created_at

\* C12 - a create request that names a (client, coach) pair with no active
\* subscription of exactly that pair is answered 403 and writes nothing;
\* with the subscription active it succeeds, leaves exactly one row for the
\* pair and, when repeated, answers with the row that exists; every row
\* added to conversations, by a create or by the auto-create of the client
\* listing, is added while its pair is subscribed, and keeps its id and
\* seats.
C12_ConversationNeedsSubscription ==
    [][/\ \A u \in Users, x \in Users :
             /\ (<<u, x>> \notin subscriptions /\ create_client_conversation(u, x))
                => (http_status' = 403 /\ UNCHANGED dbvars)
             /\ (<<x, u>> \notin subscriptions /\ create_coach_conversation(u, x))
                => (http_status' = 403 /\ UNCHANGED dbvars)
             /\ (/\ RoleOf(u) = "client" /\ <<u, x>> \in subscriptions
                 /\ create_client_conversation(u, x))
                => /\ http_status' = 200
                   /\ Cardinality({r \in Range(conversations') :
                          r.client_user_id = u /\ r.coach_user_id = x}) = 1
             /\ (/\ RoleOf(u) = "coach" /\ <<x, u>> \in subscriptions
                 /\ create_coach_conversation(u, x))
                => /\ http_status' = 201
                   /\ Cardinality({r \in Range(conversations') :
                          r.client_user_id = x /\ r.coach_user_id = u}) = 1
       /\ Len(conversations') >= Len(conversations)
       /\ \A i \in 1..Len(conversations') :
             IF i > Len(conversations)
             THEN <<conversations'[i].client_user_id, conversations'[i].coach_user_id>>
                     \in subscriptions
             ELSE /\ conversations'[i].id = conversations[i].id
                  /\ conversations'[i].client_user_id = conversations[i].client_user_id
                  /\ conversations'[i].coach_user_id = conversations[i].coach_user_id]_vars

\* C12 - a create was repeated for a pair that already had its row, a second
\* pair is subscribed, and a create has since been refused
C12_Witness ==
    /\ Len(conversations) = 1
    /\ conv_seq > Len(conversations)
    /\ Cardinality(subscriptions) = 2
    /\ http_status = 403

\* C13 - every REST message operation (list messages, send message, mark
\* read; client and coach variants) on a conversation that does not exist,
\* or in which the caller does not hold the seat of the endpoint's role, is
\* answered 404 and leaves the store unchanged.
C13_NonMemberRestNotFound ==
    [][\A u \in Users, c \in ConvIds :
          /\ (/\ ~_ensure_client_conversation(c, u)
              /\ \/ \E b \in {0} \cup MsgIds, l \in LimitInputs :
                       list_client_messages(u, c, b, l)
                 \/ \E raw \in RestInputs : send_client_message(u, c, raw)
                 \/ \E m \in MsgIds : mark_client_message_read(u, c, m))
             => (http_status' = 404 /\ UNCHANGED dbvars)
          /\ (/\ ~_ensure_coach_conversation(c, u)
              /\ \/ \E b \in {0} \cup MsgIds, l \in LimitInputs :
                       list_coach_messages(u, c, b, l)
                 \/ \E raw \in RestInputs : send_coach_message(u, c, raw)
                 \/ \E m \in MsgIds : mark_coach_message_read(u, c, m))
             => (http_status' = 404 /\ UNCHANGED dbvars)]_vars

\* C14 - a consumer that starts without cursor and goes on with before =
\* the oldest id it has received is handed ids of messages of the
\* conversation in strictly decreasing order, so none twice; no message
\* that existed when it started and is not older than its cursor is
\* missing, whatever was appended meanwhile; and once a page says there is
\* no more, every message that existed when it started has been handed over.
C14_PagesCoverOnce ==
    pager.user # 0 =>
       /\ \A i \in 1..Len(pager.got) :
             /\ pager.got[i] \in MessagesBefore(pager.conv, 0)
             /\ i > 1 => pager.got[i - 1] > pager.got[i]
       /\ \A id \in pager.base :
             (pager.got # <<>> /\ id >= pager.got[Len(pager.got)])
             => id \in Range(pager.got)
       /\ ~pager.more => pager.base \subseteq Range(pager.got)

\* C14 - a consumer paged one message at a time through a conversation of
\* at least two messages to the end, and a message was appended after it
\* had started
C14_Witness ==
    /\ pager.user # 0
    /\ pager.limit = 1
    /\ Len(pager.got) >= 2
    /\ ~pager.more
    /\ MessagesBefore(pager.conv, 0) \ pager.base # {}
    /\ MessagesBefore(pager.conv, 0) \ Range(pager.got) # {}

\* the number of times frame f was written to socket h
Copies(rcv, h, f) == Cardinality({i \in 1..Len(rcv[h]) : rcv[h][i] = f})

\* C15 - when the receiving participant marks a message read, on the REST
\* endpoint or with a WebSocket `read`, the first mark succeeds and the
\* original sender's open sockets are sent message_read once; a second mark
\* of the same message reports a no-op, not an error, and notifies nobody.
C15_MarkNotifiesOnce ==
    [][/\ \A u \in Users, c \in ConvIds, m \in MsgIds :
             /\ (/\ mark_client_message_read(u, c, m) \/ mark_coach_message_read(u, c, m)
                 /\ messages' # messages)
                => /\ http_status' = 200
                   /\ \A h \in Conns(active_connections, Msg(m).sender_user_id) :
                         alive[h]
                         => Copies(received', h, Frame("message_read", c, m, 0, {})) = 1
             /\ (/\ \/ RoleOf(u) = "client" /\ mark_client_message_read(u, c, m)
                    \/ RoleOf(u) = "coach" /\ mark_coach_message_read(u, c, m)
                 /\ <<m, u>> \in read_by
                 /\ Msg(m).conversation_id = c)
                => (http_status' < 400 /\ UNCHANGED <<dbvars, received>>)
       /\ \A h \in Handles, c \in ConvIds, m \in MsgIds :
             (/\ pc[h] = "idle" /\ alive[h]
              /\ <<m, owner[h]>> \in read_by
              /\ _handle_read(h, c, m))
             => UNCHANGED <<dbvars, received>>
       /\ \A h \in Handles, f \in UNION {Range(received'[x]) : x \in Handles} :
             f.type = "message_read" => Copies(received', h, f) <= 1]_vars

\* C16 - a `typing` event from a member of the conversation writes nothing
\* to the store, and a typing frame is only ever written to a socket of the
\* other participant of the conversation it names: never to a socket of the
\* sender, never to a third user's.
C16_TypingOnlyToOtherParty ==
    [][/\ \A h \in Handles, c \in ConvIds :
             (/\ pc[h] = "idle" /\ alive[h]
              /\ ws_member(c, owner[h])
              /\ _handle_typing(h, c))
             => UNCHANGED dbvars
       /\ \A x \in Handles : \A i \in 1..Len(received'[x]) :
             (i > Len(received[x]) /\ received'[x][i].type = "typing")
             => /\ UNCHANGED dbvars
                /\ ws_member(received'[x][i].conversation_id, received'[x][i].user_id)
                /\ owner[x] # received'[x][i].user_id
                /\ owner[x] = ws_recipient(received'[x][i].conversation_id,
                                           received'[x][i].user_id)]_vars

\* C16 - two sockets of the other participant hold the typing frame of a
\* member whose own socket is still open
C16_Witness ==
    \E x \in Handles, y \in Handles, z \in Handles :
       /\ x # y
       /\ owner[z] # 0 /\ owner[x] # owner[z] /\ alive[z]
       /\ Frame("typing", 1, 0, owner[z], {}) \in Range(received[x])
       /\ Frame("typing", 1, 0, owner[z], {}) \in Range(received[y])

C18_UnauthorizedClosed ==
    [][\A h \in Handles :
          /\ Connect(h, 0)
             => /\ pc'[h] = "closed 4001"
                /\ h \notin Registered(active_connections')
                /\ received'[h] = <<>>
                /\ owner'[h] = 0
                /\ UNCHANGED <<dbvars, active_connections>>
          /\ pc[h] = "closed 4001"
             => /\ pc'[h] = "closed 4001"
                /\ h \notin Registered(active_connections')
                /\ received'[h] = <<>>
                /\ owner'[h] = 0
                /\ task'[h] = NoTask]_vars

\* C18 - socket 1 was refused; afterwards the two participants connected
\* and a message was pushed to both of them
C18_Witness ==
    /\ pc[1] = "closed 4001"
    /\ received[1] = <<>>
    /\ \E h \in Handles \ {1} : owner[h] = 1 /\ \E i \in 1..Len(received[h]) : received[h][i].type = "new_message"
    /\ \E h \in Handles \ {1} : owner[h] = 2 /\ \E i \in 1..Len(received[h]) : received[h][i].type = "new_message"

\* the new_message frames for message m written to socket x
NewMessageCopies(rcv, x, m) ==
    Cardinality({i \in 1..Len(rcv[x]) :
                    rcv[x][i].type = "new_message" /\ rcv[x][i].message_id = m})

Inserted == {messages'[i] : i \in (Len(messages) + 1)..Len(messages')}

\* C20 - every stored message names as sender_type the seat its
\* sender_user_id holds in its conversation, and the row a send inserts has
\* the authenticated caller (the user of the REST request, the owner of the
\* socket) as sender_user_id, whatever the request carries.
C20_SenderIsCallerInSeat ==
    [][/\ \A r \in Range(messages') :
             /\ HasConv(r.conversation_id)'
             /\ r.sender_type \in {"client", "coach"}
             /\ r.sender_type = "client"
                => r.sender_user_id = Conv(r.conversation_id).client_user_id
             /\ r.sender_type = "coach"
                => r.sender_user_id = Conv(r.conversation_id).coach_user_id
       /\ Inserted # {}
          => /\ \A u \in Users, c \in ConvIds, raw \in RestInputs :
                   (send_client_message(u, c, raw) \/ send_coach_message(u, c, raw))
                   => \A r \in Inserted : r.sender_user_id = u /\ r.conversation_id = c
             /\ \A h \in Handles, data \in WsMessageInputs :
                   (pc[h] = "idle" /\ alive[h] /\ _handle_send_message(h, data))
                   => \A r \in Inserted :
                         /\ r.sender_user_id = owner[h]
                         /\ r.conversation_id = data.conversation_id]_vars

\* C20 - the coach sent a message over a socket: the stored row has the
\* coach's id and seat, and the socket was pushed its frame
C20_Witness ==
    \E r \in Range(messages) :
       /\ r.sender_type = "coach" /\ r.sender_user_id = 2
       /\ owner[1] = 2
       /\ NewMessageCopies(received, 1, r.id) = 1

\* socket h takes up a `message` event that passes the handler's checks
Accepts(h, data) ==
    /\ pc[h] = "idle"
    /\ alive[h]
    /\ ws_message_valid(data)
    /\ ws_member(data.conversation_id, owner[h])
    /\ _handle_send_message(h, data)

\* C21 - an accepted WebSocket `message` event stores exactly one row, in the
\* step that begins its pushes, so every new_message frame names a stored
\* row; afterwards no step (a push, a raising push, a closed peer, a store
\* fault, the process stopping) removes or repeats a stored row or changes
\* more of it than its read_at;
\* and an event whose INSERT fails stores nothing and pushes nothing.
C21_OneRowPerAcceptedEvent ==
    [][/\ \A h \in Handles, data \in SaidData :
             Accepts(h, data)
             => /\ Len(messages') = Len(messages) + 1
                /\ messages'[Len(messages')].id = msg_seq + 1
                /\ messages'[Len(messages')].sender_user_id = owner[h]
       /\ Len(messages') >= Len(messages)
       /\ \A i \in 1..Len(messages) :
             [messages'[i] EXCEPT !.read_at = 0] = [messages[i] EXCEPT !.read_at = 0]
       /\ \A i, j \in 1..Len(messages') : messages'[i].id = messages'[j].id => i = j
       /\ Len(messages') > Len(messages)
          => \E h \in Handles, data \in SaidData : Accepts(h, data)
       /\ \A x \in Handles : \A i \in 1..Len(received'[x]) :
             received'[x][i].type = "new_message"
             => \E r \in Range(messages') : r.id = received'[x][i].message_id
       /\ \A h \in Handles, data \in SaidData :
             InsertFails(h, data)
             => /\ messages' = messages
                /\ received' = received
                /\ task' = task
                /\ pc' = pc]_vars

\* C21 - of two accepted attempts one INSERT failed and one row is stored,
\* under the second id of the serial; the process has since stopped or the
\* sockets have left, and the row is still there
C21_Witness ==
    /\ Len(messages) = 1
    /\ messages[1].id = 2
    /\ budget.messages = 0
    /\ active_connections = <<>>
    /\ pc[1] = "closed" /\ pc[2] = "closed"

\* C22 - a failure while one event of socket h is handled (the store
\* connection cannot be opened, a push raises into the handler) leaves h in
\* its receive loop and registered.
C22_FailureKeepsLoop ==
    [][\A h \in Handles :
          (\/ StoreDown(h)
           \/ pc[h] = "fan" /\ alive[h] /\ FanRaise(h))
          => /\ pc'[h] = "idle"
             /\ h \in Conns(active_connections', owner[h])]_vars

\* C23 - a connect or disconnect of user U while a send_to_user(U, ...) is
\* suspended at a push never puts that call in the position to raise: the
\* set it iterates still has the size it had when the loop began.
C23_RegistryToleratesInterleaving ==
    \A h \in Handles : pc[h] = "fan" => ~send_to_user_raises(h)

\* the message_read frames for message m written to socket x
ReadCopies(rcv, x, m) ==
    Cardinality({i \in 1..Len(rcv[x]) :
                    rcv[x][i].type = "message_read" /\ rcv[x][i].message_id = m})

\* C24 - a push of message_read for message m begins only in the step of
\* the one mark-read that turns m's read_at from null to non-null, which no
\* later mark-read repeats; the frame is written only to sockets of the user
\* who sent m, and to each of them at most once.
C24_ReadReceiptAtMostOnce ==
    [][/\ \A h \in Handles :
             (pc[h] = "idle" /\ task'[h].kind = "read")
             => LET m == task'[h].frame.message_id IN
                /\ HasMsg(m)
                /\ Msg(m).read_at = 0
                /\ \E r \in Range(messages') : r.id = m /\ r.read_at # 0
                /\ task'[h].user = Msg(m).sender_user_id
                /\ task'[h].targets = <<>>
       /\ messages' # messages
          => \A r \in Range(messages) :
                r.read_at # 0
                => \E q \in Range(messages') : q.id = r.id /\ q.read_at = r.read_at
       /\ \A x \in Handles :
             received'[x] # received[x]
             => \A m \in MsgIds :
                   /\ ReadCopies(received', x, m) <= 1
                   /\ ReadCopies(received', x, m) > ReadCopies(received, x, m)
                      => /\ HasMsg(m)
                         /\ owner[x] = Msg(m).sender_user_id
                         /\ \E r \in Range(messages') : r.id = m /\ r.read_at # 0]_vars

\* C24 - the coach's message was marked read and both of the coach's sockets
\* hold its message_read once; the client's socket holds none
C24_Witness ==
    /\ owner[1] = 2 /\ owner[2] = 2 /\ owner[3] = 1
    /\ HasMsg(1) /\ Msg(1).sender_user_id = 2 /\ Msg(1).read_at # 0
    /\ ReadCopies(received, 1, 1) = 1
    /\ ReadCopies(received, 2, 1) = 1
    /\ ReadCopies(received, 3, 1) = 0

\* C25 - whatever the interleaving of find-or-create requests, the table
\* holds at most one row per (client, coach) pair, and every answered
\* request was given the id of the row of its pair, so two requests for the
\* same pair were given the same id.
C25_OneConversationPerPair ==
    /\ \A i, j \in 1..Len(conversations) :
          (/\ conversations[i].client_user_id = conversations[j].client_user_id
           /\ conversations[i].coach_user_id = conversations[j].coach_user_id)
          => i = j
    /\ \A k \in CallSlots :
          calls[k].stage = "done"
          => \E r \in Range(conversations) :
                /\ r.id = calls[k].id
                /\ r.client_user_id = calls[k].client
                /\ r.coach_user_id = calls[k].coach
    /\ \A k, l \in CallSlots :
          (/\ calls[k].stage = "done" /\ calls[l].stage = "done"
           /\ calls[k].client = calls[l].client /\ calls[k].coach = calls[l].coach)
          => calls[k].id = calls[l].id

\* C25 - two listings of client 1 both found no conversation and both went
\* on to create one with coach 2; both were answered
C25_Witness ==
    /\ calls[1].stage = "done" /\ calls[2].stage = "done"
    /\ calls[1].op = "list_client" /\ calls[2].op = "list_client"
    /\ calls[1].client = 1 /\ calls[2].client = 1
    /\ calls[1].coach = 2 /\ calls[2].coach = 2
    /\ calls[1].id # 0

\* C26 - within one conversation the ids of the stored messages increase
\* strictly in the order of the appends, and no id between two of them is
\* missing from the conversation.
C26_IdsDenseWithinConversation ==
    \A i, j \in 1..Len(messages) :
       (i < j /\ messages[i].conversation_id = messages[j].conversation_id)
       => /\ messages[i].id < messages[j].id
          /\ \A x \in (messages[i].id + 1)..(messages[j].id - 1) :
                \E r \in Range(messages) :
                   r.id = x /\ r.conversation_id = messages[i].conversation_id

\* C27 - when the receive loop of a socket ends (its transport closed, or an
\* error reached the loop), the socket is in no set of the registry, its
\* user's entry is gone if it was the user's last socket and the other
\* entries are as they were; from then on the socket stays out of the
\* registry and nothing is written to it.
C27_ClosedIsUnregistered ==
    [][\A h \in Handles :
          /\ (pc[h] \in {"idle", "fan"} /\ pc'[h] = "closed")
             => /\ h \notin Registered(active_connections')
                /\ Conns(active_connections, owner[h]) \ {h} = {}
                   => owner[h] \notin DOMAIN active_connections'
                /\ \A u \in Users :
                      Conns(active_connections', u) = Conns(active_connections, u) \ {h}
                /\ received'[h] = <<>>
          /\ pc[h] = "closed"
             => /\ pc'[h] = "closed"
                /\ h \notin Registered(active_connections')
                /\ received'[h] = <<>>]_vars

\* C27 - two sockets have left, the third is in its loop and is all the
\* registry holds; it has been pushed a typing frame since
C27_Witness ==
    /\ pc[1] = "closed" /\ pc[2] = "closed" /\ pc[3] = "idle"
    /\ Registered(active_connections) = {3}
    /\ DOMAIN active_connections = {owner[3]}
    /\ \E i \in 1..Len(received[3]) : received[3][i].type = "typing"

\* C28 - the registry maps no user to an empty set: a user is a key of
\* active_connections exactly when is_online holds of the user.
C28_NoEmptyEntry ==
    \A u \in Users : u \in DOMAIN active_connections <=> is_online(u)

\* C29 - on every socket the new_message frames of one conversation appear
\* in increasing order of message id.
C29_PushedInIdOrder ==
    \A h \in Handles : \A i, j \in 1..Len(received[h]) :
       (/\ i < j
        /\ received[h][i].type = "new_message"
        /\ received[h][j].type = "new_message"
        /\ received[h][i].conversation_id = received[h][j].conversation_id)
       => received[h][i].message_id < received[h][j].message_id

\* C30 - every new_message, typing and message_read frame a socket holds
\* names a conversation in which the socket's owner is the client or the
\* coach.
C30_OnlyParticipantsReceive ==
    \A x \in Handles : \A i \in 1..Len(received[x]) :
       received[x][i].type \in {"new_message", "typing", "message_read"}
       => /\ HasConv(received[x][i].conversation_id)
          /\ owner[x] \in {Conv(received[x][i].conversation_id).client_user_id,
                          Conv(received[x][i].conversation_id).coach_user_id}

\* C30 - the coach's message was pushed to both participants and marked
\* read over the third user's socket, which was sent nothing but
\* `connected`; the receipt went to the coach
C30_Witness ==
    \E a, b, t \in Handles :
       /\ owner[a] = 1 /\ owner[b] = 2 /\ owner[t] = 3
       /\ pc[t] = "idle"
       /\ Len(received[t]) = 1
       /\ NewMessageCopies(received, a, 1) = 1
       /\ NewMessageCopies(received, b, 1) = 1
       /\ ReadCopies(received, b, 1) = 1
       /\ <<1, 3>> \in read_by

====
